---- MODULE Spec2Model ----
(***************************************************************************)
(* Random verse selection over an embedded, per-book gzip corpus.          *)
(*                                                                         *)
(* Two front ends share the same core: the command line program            *)
(* (randfromkjv/main.go) and the HTTP server whose Go source is kept in    *)
(* new.sql below the index query.  Both build the catalog in init(),       *)
(* resolve an optional category to a slice of the catalog, draw a global   *)
(* line index, locate (book, offset), open the book's gzip file, skip      *)
(* offset-1 records and emit the records that follow.                      *)
(***************************************************************************)
EXTENDS Integers, Sequences, FiniteSets, TLC

\* ------------------------------------------------------------------ bounds

\* Number of index rows the catalog is drawn from.
MaxBooks == 3
\* Largest line count an index row carries.
MaxLines == 2
\* Largest number of records a book's content stream holds.
MaxRecs == 3
\* Number of requests the HTTP server handles concurrently.
NumReqs == 2

\* ----------------------------------------------------------------- catalog

\* Rows "book_number|long_name|verse_count" the index query can emit, in the
\* order of its ORDER BY; the catalog is drawn from the first MaxBooks rows.
IndexRows ==
  << [ID |-> 10,  Name |-> "Genesis"],
     [ID |-> 20,  Name |-> "Exodus"],
     [ID |-> 510, Name |-> "Acts"],
     [ID |-> 730, Name |-> "Revelation"] >>

NumRows == IF MaxBooks <= Len(IndexRows) THEN MaxBooks ELSE Len(IndexRows)

\* fmt.Sprintf("%d.txt.gz", id)
FileName(id) == <<id, ".txt.gz">>

\* BookInfo{ID, Name, LineCount, File}
BookInfo(id, name, cnt) ==
  [ID |-> id, Name |-> name, LineCount |-> cnt, File |-> FileName(id)]

\* The zero value of BookInfo (var sel BookInfo).
ZeroBook == [ID |-> 0, Name |-> "", LineCount |-> 0, File |-> <<>>]

\* init(): the scanner loop appends one BookInfo per index line, in order.
\* present is the set of rows the index holds, cnt their verse counts.
RECURSIVE ScanIndex(_, _, _, _)
ScanIndex(i, present, cnt, acc) ==
  IF i > NumRows THEN acc
  ELSE IF i \in present
       THEN ScanIndex(i + 1, present, cnt,
                      Append(acc, BookInfo(IndexRows[i].ID, IndexRows[i].Name, cnt[i])))
       ELSE ScanIndex(i + 1, present, cnt, acc)

\* Every catalog init() can build from an index of at most NumRows rows.
Catalogs ==
  { ScanIndex(1, present, cnt, <<>>) :
      present \in SUBSET (1 .. NumRows), cnt \in [1 .. NumRows -> 0 .. MaxLines] }

\* The named categories, in the order init() lists them.
categories ==
  << [Key |-> "ot",         LowID |-> 10,  HighID |-> 460],
     [Key |-> "nt",         LowID |-> 470, HighID |-> 730],
     [Key |-> "pentateuch", LowID |-> 10,  HighID |-> 50],
     [Key |-> "historical", LowID |-> 60,  HighID |-> 190],
     [Key |-> "poetic",     LowID |-> 220, HighID |-> 260],
     [Key |-> "major",      LowID |-> 290, HighID |-> 340],
     [Key |-> "minor",      LowID |-> 350, HighID |-> 460],
     [Key |-> "gospels",    LowID |-> 470, HighID |-> 500],
     [Key |-> "apostolic",  LowID |-> 510, HighID |-> 720],
     [Key |-> "acts",       LowID |-> 510, HighID |-> 510],
     [Key |-> "paul",       LowID |-> 520, HighID |-> 650],
     [Key |-> "general",    LowID |-> 660, HighID |-> 720],
     [Key |-> "revelation", LowID |-> 730, HighID |-> 730] >>

CatKeys == { categories[i].Key : i \in 1 .. Len(categories) }

CatOf(key) == CHOOSE c \in { categories[i] : i \in 1 .. Len(categories) } : c.Key = key

\* catMap[c.Key] = struct{LowID, HighID}{c.LowID, c.HighID}
catMap == [k \in CatKeys |-> [LowID |-> CatOf(k).LowID, HighID |-> CatOf(k).HighID]]

\* ---------------------------------------------------------- range resolver

\* The loop of sliceRange from index i on; indices are 1-based here and 0
\* stands for the source's -1.  Returns <<start, end>>.
\* SliceScan with the upper bound taken as exclusive (b.ID < highID).
RECURSIVE SliceScan_StrictHigh(_, _, _, _, _, _)
SliceScan_StrictHigh(bs, i, start, end, lowID, highID) ==
  IF i > Len(bs) THEN <<start, end>>
  ELSE LET b  == bs[i]
           s1 == IF start = 0 /\ b.ID >= lowID THEN i ELSE start
           e1 == IF b.ID < highID THEN i ELSE end
       IN  IF b.ID > highID THEN <<s1, e1>>
           ELSE SliceScan_StrictHigh(bs, i + 1, s1, e1, lowID, highID)

RECURSIVE SliceScan(_, _, _, _, _, _)
SliceScan(bs, i, start, end, lowID, highID) ==
  IF i > Len(bs) THEN <<start, end>>
  ELSE LET b  == bs[i]
           s1 == IF start = 0 /\ b.ID >= lowID THEN i ELSE start
           e1 == IF b.ID <= highID THEN i ELSE end
       IN  IF b.ID > highID THEN <<s1, e1>>
           ELSE SliceScan(bs, i + 1, s1, e1, lowID, highID)

\* sliceRange returns books whose IDs are in [lowID..highID], nil otherwise.
sliceRange(bs, lowID, highID) ==
  LET se == SliceScan(bs, 1, 0, 0, lowID, highID)
  IN  IF se[1] >= 1 /\ se[2] >= se[1] THEN SubSeq(bs, se[1], se[2]) ELSE <<>>

\* The separator init() puts between the first and the last name: an em
\* dash (U+2014) with a space on each side, written here in ASCII.
EmDash == " -- "

\* init(): the label cached for category c over the catalog bs.
LabelOf(bs, c) ==
  LET slice == sliceRange(bs, c.LowID, c.HighID)
  IN  IF Len(slice) = 0 THEN ""
      ELSE IF c.LowID = c.HighID THEN slice[1].Name
      ELSE slice[1].Name \o EmDash \o slice[Len(slice)].Name

\* catLabel as init() leaves it.
BuildLabels(bs) == [k \in CatKeys |-> LabelOf(bs, CatOf(k))]

\* ---------------------------------------------------------------- selector

\* total := 0; for _, b := range pool { total += b.LineCount }
\* TotalLines counting the books of the pool instead of their lines.
TotalLines_CountBooks(pool) == Len(pool)

RECURSIVE TotalLines(_)
TotalLines(pool) ==
  IF pool = <<>> THEN 0 ELSE Head(pool).LineCount + TotalLines(Tail(pool))

\* The locate loop from pool index i on with running sum cum: the first book
\* with choice <= cum + LineCount is selected, offset = choice - cum.  When
\* the loop ends without a match, sel and offset keep their zero values.
\* LocateFrom with the running sum left out of the offset.
RECURSIVE LocateFrom_NoCum(_, _, _, _)
LocateFrom_NoCum(pool, i, cum, choice) ==
  IF i > Len(pool) THEN [sel |-> ZeroBook, offset |-> 0]
  ELSE IF choice <= cum + pool[i].LineCount
       THEN [sel |-> pool[i], offset |-> choice]
       ELSE LocateFrom_NoCum(pool, i + 1, cum + pool[i].LineCount, choice)

\* LocateFrom with a strict comparison (choice < cum + LineCount).
RECURSIVE LocateFrom_Strict(_, _, _, _)
LocateFrom_Strict(pool, i, cum, choice) ==
  IF i > Len(pool) THEN [sel |-> ZeroBook, offset |-> 0]
  ELSE IF choice < cum + pool[i].LineCount
       THEN [sel |-> pool[i], offset |-> choice - cum]
       ELSE LocateFrom_Strict(pool, i + 1, cum + pool[i].LineCount, choice)

RECURSIVE LocateFrom(_, _, _, _)
LocateFrom(pool, i, cum, choice) ==
  IF i > Len(pool) THEN [sel |-> ZeroBook, offset |-> 0]
  ELSE IF choice <= cum + pool[i].LineCount
       THEN [sel |-> pool[i], offset |-> choice - cum]
       ELSE LocateFrom(pool, i + 1, cum + pool[i].LineCount, choice)

Locate(pool, choice) == LocateFrom(pool, 1, 0, choice)

\* ---------------------------------------------------------- verse extractor

\* What the embedded file system holds under a book's file name: nothing,
\* bytes that are no gzip stream, or a gzip stream of n records that ends
\* cleanly (err = FALSE) or with a read error after them (err = TRUE).
FileStates ==
  { [kind |-> "missing", n |-> 0, err |-> FALSE],
    [kind |-> "badgzip", n |-> 0, err |-> FALSE] }
  \cup { [kind |-> "ok", n |-> n, err |-> e] : n \in 0 .. MaxRecs, e \in BOOLEAN }

\* An entry of the embedded file system that no request has opened yet.
Unread == [kind |-> "unread", n |-> 0, err |-> FALSE]

FileKeys == { IndexRows[i].ID : i \in 1 .. NumRows }

\* for i := 1; i < offset; i++ { if !scanner.Scan() { break } }
\* pos is the number of records the scanner has consumed, n the number it
\* can deliver; the result is pos after the loop.
\* SkipLoop running one step too far (i <= offset).
RECURSIVE SkipLoop_OneMore(_, _, _, _)
SkipLoop_OneMore(i, offset, pos, n) ==
  IF i <= offset
  THEN IF pos < n THEN SkipLoop_OneMore(i + 1, offset, pos + 1, n) ELSE pos
  ELSE pos

RECURSIVE SkipLoop(_, _, _, _)
SkipLoop(i, offset, pos, n) ==
  IF i < offset
  THEN IF pos < n THEN SkipLoop(i + 1, offset, pos + 1, n) ELSE pos
  ELSE pos

\* for scanner.Scan() { ... print the record ... }: the positions, counted
\* from the start of the content, of the records the loop emits.
\* StreamLoop stopping after the first record.
StreamLoop_One(pos, n, acc) ==
  IF pos < n THEN Append(acc, pos + 1) ELSE acc

RECURSIVE StreamLoop(_, _, _)
StreamLoop(pos, n, acc) ==
  IF pos < n THEN StreamLoop(pos + 1, n, Append(acc, pos + 1)) ELSE acc

\* ------------------------------------------------------- observable outcome

\* What the user observes of a finished request: the exit status (CLI) or
\* the HTTP status, the message shown and whether the accepted values are
\* listed.
Outcome(status, msg, listed) == [status |-> status, msg |-> msg, listed |-> listed]

NoOutcome == Outcome(-1, "", FALSE)

\* narrow names no category.
InvalidOut(m) ==
  IF m = "cli" THEN Outcome(1, "InvalidParamMessage", TRUE)
  ELSE Outcome(200, "InvalidParamMessage", TRUE)

\* total == 0.
EmptyPoolOut(m) ==
  IF m = "cli" THEN Outcome(1, "NoVersesError", FALSE)
  ELSE Outcome(400, "NoVersesError", FALSE)

\* bibleFS.Open failed.
OpenFailOut(m) ==
  IF m = "cli" THEN Outcome(1, "NoVersesError", FALSE)
  ELSE Outcome(404, "BookNotFoundError", FALSE)

\* gzip.NewReader failed.
GzipFailOut(m) ==
  IF m = "cli" THEN Outcome(1, "NoVersesError", FALSE)
  ELSE Outcome(500, "DecompressionError", FALSE)

\* scanner.Err() after the verse loop: the CLI exits 1, the server only logs.
ScanErrOut(m) ==
  IF m = "cli" THEN Outcome(1, "error reading verses", FALSE)
  ELSE Outcome(200, "verses", FALSE)

\* The verses were written and the handler returned.
VersesOut(m) ==
  IF m = "cli" THEN Outcome(0, "verses", FALSE)
  ELSE Outcome(200, "verses", FALSE)

\* A panic inside the handler: net/http recovers it and drops the connection.
PanicOut == Outcome(0, "panic", FALSE)

\* -------------------------------------------------------------------- state

VARIABLES
  mode,      \* which program runs: "cli" (main.go) or "http" (new.sql)
  books,     \* the catalog built by init()
  catLabel,  \* the label cached per category by init()
  files,     \* the embedded file system, per book ID
  rngState,  \* number of times the state of the shared generator was advanced
  rngSeen,   \* per request: the generator state its draw has read
  pc,        \* per request: where the handler (or main) stands
  narrow,    \* per request: the category parameter
  pool,      \* per request: the selection pool
  total,     \* per request: the pool's total line count
  choice,    \* per request: the drawn global line index
  sel,       \* per request: the selected book
  offset,    \* per request: the local offset in the selected book
  fh,        \* per request: the file handle f
  gz,        \* per request: the gzip reader
  scanPos,   \* per request: records the scanner has consumed
  yielded,   \* per request: positions of the records written out
  out,       \* per request: what the user observes at the end
  qLow, qHigh, qSlice  \* a range query and the slice sliceRange returned for it

vars == << mode, books, catLabel, files, rngState, rngSeen, pc, narrow, pool,
           total, choice, sel, offset, fh, gz, scanPos, yielded, out,
           qLow, qHigh, qSlice >>

catalogVars == << mode, books, catLabel >>
queryVars == << qLow, qHigh, qSlice >>

Procs == 1 .. NumReqs

\* The values of the narrow parameter the requests are tried with: none, a
\* category of each shape and a name that is no category.
NarrowInputs == {"", "ot", "nt", "pentateuch", "apostolic", "acts", "minor", "bogus"}

\* A range query whose slice has not been computed yet.
Pending == <<[ID |-> -1, Name |-> "pending", LineCount |-> 0, File |-> <<>>]>>

\* The state after init(), before any request: catalog bs, program m, the
\* set of requests that will be served and the range query lo, hi to resolve.
InitWith(m, bs, reqs, lo, hi) ==
  /\ mode = m
  /\ books = bs
  /\ catLabel = BuildLabels(bs)
  /\ files = [k \in FileKeys |-> Unread]
  /\ rngState = 0
  /\ rngSeen = [p \in Procs |-> 0]
  /\ pc = [p \in Procs |-> IF p \in reqs THEN "start" ELSE "idle"]
  /\ narrow = [p \in Procs |-> ""]
  /\ pool = [p \in Procs |-> <<>>]
  /\ total = [p \in Procs |-> 0]
  /\ choice = [p \in Procs |-> 0]
  /\ sel = [p \in Procs |-> ZeroBook]
  /\ offset = [p \in Procs |-> 0]
  /\ fh = [p \in Procs |-> "none"]
  /\ gz = [p \in Procs |-> "none"]
  /\ scanPos = [p \in Procs |-> 0]
  /\ yielded = [p \in Procs |-> <<>>]
  /\ out = [p \in Procs |-> NoOutcome]
  /\ qLow = lo
  /\ qHigh = hi
  /\ qSlice = Pending

\* One invocation of the CLI, or one request to the server, over any catalog.
Init ==
  \E m \in {"cli", "http"}, bs \in Catalogs : InitWith(m, bs, {1}, 0, 0)

\* ------------------------------------------------------------------ actions

\* Leaving main through os.Exit: deferred calls do not run, the handles stay
\* as they are.  Leaving the handler through return: the deferred Close
\* calls run.
Released(h) == IF h = "open" THEN "closed" ELSE h

AfterExit(m, h) == IF m = "cli" THEN h ELSE Released(h)

\* "validate narrow": an unknown category ends the request with the list of
\* accepted values.
Validate(p, n) ==
  /\ pc[p] = "start"
  /\ narrow' = [narrow EXCEPT ![p] = n]
  /\ IF n # "" /\ n \notin DOMAIN catMap
     THEN /\ pc' = [pc EXCEPT ![p] = "invalid"]
          /\ out' = [out EXCEPT ![p] = InvalidOut(mode)]
     ELSE /\ pc' = [pc EXCEPT ![p] = "pool"]
          /\ out' = out
  /\ UNCHANGED << catalogVars, queryVars, files, rngState, rngSeen, pool, total,
                  choice, sel, offset, fh, gz, scanPos, yielded >>

\* "build selection pool" and "total lines": total == 0 ends the request
\* with the no-verses message.
BuildPool(p) ==
  /\ pc[p] = "pool"
  /\ LET pl == IF narrow[p] # ""
               THEN sliceRange(books, catMap[narrow[p]].LowID, catMap[narrow[p]].HighID)
               ELSE books
         t  == TotalLines(pl)
     IN  /\ pool' = [pool EXCEPT ![p] = pl]
         /\ total' = [total EXCEPT ![p] = t]
         /\ IF t = 0
            THEN /\ pc' = [pc EXCEPT ![p] = "empty"]
                 /\ out' = [out EXCEPT ![p] = EmptyPoolOut(mode)]
            ELSE /\ pc' = [pc EXCEPT ![p] = "draw"]
                 /\ out' = out
  /\ UNCHANGED << catalogVars, queryVars, files, rngState, rngSeen, narrow,
                  choice, sel, offset, fh, gz, scanPos, yielded >>

\* rng.Intn(total) enters the generator shared by all requests and reads its
\* state; rand.New(rand.NewSource(..)) takes no lock.
DrawBegin(p) ==
  /\ pc[p] = "draw"
  /\ rngSeen' = [rngSeen EXCEPT ![p] = rngState]
  /\ pc' = [pc EXCEPT ![p] = "drawing"]
  /\ UNCHANGED << catalogVars, queryVars, files, rngState, narrow, pool, total,
                  choice, sel, offset, fh, gz, scanPos, yielded, out >>

\* Another request was inside the generator while p was.
Raced(p) ==
  \/ rngSeen[p] # rngState
  \/ \E q \in Procs \ {p} : pc[q] = "drawing"

\* What rng.Intn(total) + 1 can give: any index in 1 .. total; after a data
\* race on the generator also a panic (0 here), its indices being corrupted.
DrawResults(p) == (1 .. total[p]) \cup (IF Raced(p) THEN {0} ELSE {})

\* rng.Intn(total) writes the advanced state back and returns; then the
\* "locate book + offset" loop runs.
DrawEnd(p) ==
  /\ pc[p] = "drawing"
  /\ rngState' = rngSeen[p] + 1
  /\ \E c \in DrawResults(p) :
       IF c = 0
       THEN /\ pc' = [pc EXCEPT ![p] = "panicked"]
            /\ out' = [out EXCEPT ![p] = PanicOut]
            /\ UNCHANGED << choice, sel, offset >>
       ELSE /\ pc' = [pc EXCEPT ![p] = "open"]
            /\ choice' = [choice EXCEPT ![p] = c]
            /\ sel' = [sel EXCEPT ![p] = Locate(pool[p], c).sel]
            /\ offset' = [offset EXCEPT ![p] = Locate(pool[p], c).offset]
            /\ out' = out
  /\ UNCHANGED << catalogVars, queryVars, files, rngSeen, narrow, pool, total,
                  fh, gz, scanPos, yielded >>

\* The entry of the embedded file system under a file name; the zero value
\* of File names nothing.  An entry is fixed when it is first opened.
FileEntries(name) ==
  IF name = <<>> THEN {[kind |-> "missing", n |-> 0, err |-> FALSE]}
  ELSE IF files[name[1]] = Unread THEN FileStates
  ELSE {files[name[1]]}

FileOf(b) ==
  IF b.File = <<>> THEN [kind |-> "missing", n |-> 0, err |-> FALSE]
  ELSE files[b.File[1]]

\* bibleFS.Open(sel.File); defer f.Close()
Open(p) ==
  /\ pc[p] = "open"
  /\ \E e \in FileEntries(sel[p].File) :
       /\ files' = IF sel[p].File = <<>> THEN files
                   ELSE [files EXCEPT ![sel[p].File[1]] = e]
       /\ IF e.kind = "missing"
          THEN /\ pc' = [pc EXCEPT ![p] = "notfound"]
               /\ out' = [out EXCEPT ![p] = OpenFailOut(mode)]
               /\ fh' = fh
          ELSE /\ pc' = [pc EXCEPT ![p] = "opened"]
               /\ out' = out
               /\ fh' = [fh EXCEPT ![p] = "open"]
  /\ UNCHANGED << catalogVars, queryVars, rngState, rngSeen, narrow, pool, total,
                  choice, sel, offset, gz, scanPos, yielded >>

\* gzip.NewReader(f); defer gz.Close()
NewReader(p) ==
  /\ pc[p] = "opened"
  /\ IF FileOf(sel[p]).kind = "badgzip"
     THEN /\ pc' = [pc EXCEPT ![p] = "badgzip"]
          /\ out' = [out EXCEPT ![p] = GzipFailOut(mode)]
          /\ fh' = [fh EXCEPT ![p] = AfterExit(mode, fh[p])]
          /\ gz' = gz
     ELSE /\ pc' = [pc EXCEPT ![p] = "skipping"]
          /\ out' = out
          /\ fh' = fh
          /\ gz' = [gz EXCEPT ![p] = "open"]
  /\ UNCHANGED << catalogVars, queryVars, files, rngState, rngSeen, narrow, pool,
                  total, choice, sel, offset, scanPos, yielded >>

\* "skip to chosen verse": the whole skip loop.
Skip(p) ==
  /\ pc[p] = "skipping"
  /\ scanPos' = [scanPos EXCEPT ![p] = SkipLoop(1, offset[p], 0, FileOf(sel[p]).n)]
  /\ pc' = [pc EXCEPT ![p] = "streaming"]
  /\ UNCHANGED << catalogVars, queryVars, files, rngState, rngSeen, narrow, pool,
                  total, choice, sel, offset, fh, gz, yielded, out >>

\* The verse loop, scanner.Err() and the end of main or of the handler.
Stream(p) ==
  /\ pc[p] = "streaming"
  /\ LET n == FileOf(sel[p]).n
     IN  /\ yielded' = [yielded EXCEPT ![p] = StreamLoop(scanPos[p], n, <<>>)]
         /\ scanPos' = [scanPos EXCEPT ![p] = scanPos[p] + Len(StreamLoop(scanPos[p], n, <<>>))]
  /\ IF FileOf(sel[p]).err
     THEN /\ pc' = [pc EXCEPT ![p] = "scanerr"]
          /\ out' = [out EXCEPT ![p] = ScanErrOut(mode)]
          /\ fh' = [fh EXCEPT ![p] = AfterExit(mode, fh[p])]
          /\ gz' = [gz EXCEPT ![p] = AfterExit(mode, gz[p])]
     ELSE /\ pc' = [pc EXCEPT ![p] = "closed"]
          /\ out' = [out EXCEPT ![p] = VersesOut(mode)]
          /\ fh' = [fh EXCEPT ![p] = Released(fh[p])]
          /\ gz' = [gz EXCEPT ![p] = Released(gz[p])]
  /\ UNCHANGED << catalogVars, queryVars, files, rngState, rngSeen, narrow, pool,
                  total, choice, sel, offset >>

Next ==
  \/ \E p \in Procs, n \in NarrowInputs : Validate(p, n)
  \/ \E p \in Procs : BuildPool(p)
  \/ \E p \in Procs : DrawBegin(p)
  \/ \E p \in Procs : DrawEnd(p)
  \/ \E p \in Procs : Open(p)
  \/ \E p \in Procs : NewReader(p)
  \/ \E p \in Procs : Skip(p)
  \/ \E p \in Procs : Stream(p)

Spec == Init /\ [][Next]_vars

\* ------------------------------------------------- the resolver on its own

\* The bounds a range query is tried with: every book ID, the values next to
\* it on both sides, and the far ends.
QueryIDs ==
  {0, 999999} \cup UNION { {id - 5, id, id + 5} : id \in FileKeys }

\* sliceRange(qLow, qHigh) over the catalog.
Resolve ==
  /\ qSlice = Pending
  /\ qSlice' = sliceRange(books, qLow, qHigh)
  /\ UNCHANGED << catalogVars, qLow, qHigh, files, rngState, rngSeen, pc, narrow, pool, total,
                  choice, sel, offset, fh, gz, scanPos, yielded, out >>

\* sliceRange reads only the IDs: the catalogs it is tried on differ in the
\* rows they hold, every row with one line.
ResolveCatalogs ==
  { bs \in Catalogs : \A i \in 1 .. Len(bs) : bs[i].LineCount = 1 }

InitResolve ==
  \E m \in {"cli", "http"}, bs \in ResolveCatalogs, lo \in QueryIDs, hi \in QueryIDs :
    InitWith(m, bs, {}, lo, hi)

NextResolve == Resolve

SpecResolve == InitResolve /\ [][NextResolve]_vars

\* ------------------------------------------- the server under concurrency

\* net/http runs randomHandler in one goroutine per connection: NumReqs
\* requests are handled at once, over the catalogs whose books all have lines.
ConcCatalogs ==
  { bs \in Catalogs : Len(bs) >= 1 /\ \A i \in 1 .. Len(bs) : bs[i].LineCount = 1 }

InitConc ==
  \E bs \in ConcCatalogs : InitWith("http", bs, Procs, 0, 0)

SpecConc == InitConc /\ [][Next]_vars

\* ------------------------------------------------------------- properties

\* Reference notions the properties are stated with; none is used by the
\* actions above.

Min(a, b) == IF a <= b THEN a ELSE b

\* The books of bs whose ID lies in [lo, hi], in catalog order.
InRange(bs, lo, hi) == SelectSeq(bs, LAMBDA b : lo <= b.ID /\ b.ID <= hi)

\* The same filter applied while walking the catalog from its last book to
\* its first.
RECURSIVE BackwardScan(_, _, _, _, _)
BackwardScan(bs, i, lo, hi, acc) ==
  IF i = 0 THEN acc
  ELSE BackwardScan(bs, i - 1, lo, hi,
                    IF lo <= bs[i].ID /\ bs[i].ID <= hi THEN <<bs[i]>> \o acc ELSE acc)

\* The pool a request is entitled to: the catalog, or its category's books.
PoolFor(n) ==
  IF n = "" THEN books ELSE InRange(books, CatOf(n).LowID, CatOf(n).HighID)

\* Every line of a pool: the pairs (index of the book in the pool, k).
LinesOf(pl) ==
  { ik \in (1 .. Len(pl)) \X (1 .. MaxLines) : ik[2] <= pl[ik[1]].LineCount }

\* Places of a request: the pool is built; a book and an offset are chosen;
\* the extraction is over; the request is over.
PoolBuilt ==
  {"empty", "draw", "drawing", "panicked", "open", "notfound", "opened",
   "badgzip", "skipping", "streaming", "scanerr", "closed"}
Located ==
  {"open", "notfound", "opened", "badgzip", "skipping", "streaming", "scanerr", "closed"}
Streamed == {"scanerr", "closed"}
Ended == {"invalid", "empty", "panicked", "notfound", "badgzip", "scanerr", "closed"}

\* C1: for every pool with at least one line and every draw in 1..total, the
\* selected book is a book of the pool (so its ID lies in the category's
\* range when a category was given) and 1 <= offset <= its LineCount.
SelectionInPool ==
  \A p \in Procs :
    /\ pc[p] = "draw" =>
         \A c \in 1 .. total[p] :
           LET r == Locate(pool[p], c)
           IN  /\ \E i \in 1 .. Len(PoolFor(narrow[p])) : PoolFor(narrow[p])[i] = r.sel
               /\ 1 <= r.offset /\ r.offset <= r.sel.LineCount
    /\ pc[p] \in Located =>
         /\ \E i \in 1 .. Len(PoolFor(narrow[p])) : PoolFor(narrow[p])[i] = sel[p]
         /\ \E i \in 1 .. Len(books) : books[i] = sel[p]
         /\ narrow[p] # "" =>
              CatOf(narrow[p]).LowID <= sel[p].ID /\ sel[p].ID <= CatOf(narrow[p]).HighID
         /\ 1 <= offset[p] /\ offset[p] <= sel[p].LineCount

\* C1 witness: a category request selected the last line of the second book
\* of a two-book pool.
SelectionInPoolWitness ==
  \E p \in Procs :
    /\ pc[p] = "open" /\ narrow[p] = "ot"
    /\ Len(pool[p]) = 2 /\ sel[p] = pool[p][2]
    /\ pool[p][1].LineCount >= 1
    /\ offset[p] = sel[p].LineCount /\ offset[p] >= 2

\* C2: the map from the global index to (book, offset) is a bijection between
\* 1..total and the lines of the pool, and a book without lines is selected
\* by no index.
LocateBijective ==
  \A p \in Procs :
    LET pl == pool[p]
        at(c) == Locate(pl, c)
    IN  /\ pc[p] \in {"empty", "draw"} =>
          /\ total[p] = Cardinality(LinesOf(pl))
          /\ \A c1, c2 \in 1 .. total[p] : at(c1) = at(c2) => c1 = c2
          /\ \A ik \in LinesOf(pl) :
               \E c \in 1 .. total[p] :
                 at(c) = [sel |-> pl[ik[1]], offset |-> ik[2]]
          /\ \A c \in 1 .. total[p] : at(c).sel.LineCount >= 1
        /\ pc[p] \in Located =>
             /\ sel[p].LineCount >= 1
             /\ \E ik \in LinesOf(pl) : sel[p] = pl[ik[1]] /\ offset[p] = ik[2]

\* C2 witness: the pool holds a book without lines between two books with
\* lines of different counts, and the book after it was selected.
LocateBijectiveWitness ==
  \E p \in Procs :
    /\ pc[p] = "open" /\ Len(pool[p]) = 3
    /\ pool[p][1].LineCount >= 2 /\ pool[p][2].LineCount = 0
    /\ pool[p][3].LineCount = 1 /\ sel[p] = pool[p][3]

\* C3: over an ascending catalog sliceRange returns exactly the books with
\* lowID <= ID <= highID in catalog order, nothing when no ID is in range
\* (also when lowID > highID), which is what a backward scan collects.
SliceRangeExact ==
  qSlice # Pending =>
    /\ qSlice = InRange(books, qLow, qHigh)
    /\ qSlice = BackwardScan(books, Len(books), qLow, qHigh, <<>>)
    /\ (\A i \in 1 .. Len(books) : ~(qLow <= books[i].ID /\ books[i].ID <= qHigh))
         => qSlice = <<>>

\* C3 witness: a query with lowID > highID over a catalog that has a book on
\* each bound was resolved to nothing.
SliceRangeExactWitness ==
  /\ qSlice = <<>> /\ qLow > qHigh
  /\ \E i, j \in 1 .. Len(books) : books[i].ID = qHigh /\ books[j].ID = qLow

\* C4: the cached label of every category follows the number of books its
\* range resolves to: none gives "", one gives that book's name, two or more
\* give first -- last.
LabelByCount ==
  \A k \in CatKeys :
    LET slice == InRange(books, CatOf(k).LowID, CatOf(k).HighID)
    IN  catLabel[k] =
          IF Len(slice) = 0 THEN ""
          ELSE IF Len(slice) = 1 THEN slice[1].Name
          ELSE slice[1].Name \o EmDash \o slice[Len(slice)].Name

\* C5: a pool without lines ends the request with the no-verses outcome, with
\* no draw made, no book selected and no content opened; a pool with lines
\* never ends in the empty-pool branch.
EmptyPoolNoVerses ==
  \A p \in Procs :
    pc[p] \in PoolBuilt =>
      LET lines == Cardinality(LinesOf(PoolFor(narrow[p])))
      IN  /\ lines = 0 =>
               /\ pc[p] = "empty"
               /\ out[p] = EmptyPoolOut(mode)
               /\ out[p].msg = "NoVersesError"
               /\ choice[p] = 0 /\ sel[p] = ZeroBook /\ offset[p] = 0
               /\ fh[p] = "none" /\ gz[p] = "none"
               /\ (\A q \in Procs \ {p} : pc[q] = "idle") => rngState = 0
          /\ lines # 0 =>
               /\ pc[p] # "empty"
               /\ pc[p] \in {"draw", "drawing", "open"} => out[p] = NoOutcome

\* C5 witness: a category whose books all have no lines ended as empty pool.
EmptyPoolNoVersesWitness ==
  \E p \in Procs :
    /\ pc[p] = "empty" /\ narrow[p] = "ot" /\ Len(pool[p]) = 2

\* C6: in both front ends an invalid category, an empty pool and a failed
\* extraction are told apart by what the user observes.
FailuresDistinct ==
  \A p \in Procs :
    /\ pc[p] \in {"notfound", "badgzip"} =>
         out[p] # EmptyPoolOut(mode) /\ out[p] # InvalidOut(mode)
    /\ pc[p] = "empty" => out[p] # InvalidOut(mode)

\* C7: over a stream of n records and an offset k, extraction discards
\* min(k-1, n) records and yields records k..n in order; with k > n it yields
\* nothing and, the stream ending cleanly, ends without an error.
ExtractFromOffset ==
  \A p \in Procs :
    LET n == FileOf(sel[p]).n
        k == offset[p]
    IN  /\ pc[p] = "streaming" => scanPos[p] = Min(k - 1, n)
        /\ pc[p] \in Streamed =>
             /\ k >= 1
             /\ yielded[p] = [j \in 1 .. (IF k <= n THEN n - k + 1 ELSE 0) |-> k + j - 1]
             /\ k <= n => yielded[p][1] = k
             /\ k > n => yielded[p] = <<>>
             /\ ~FileOf(sel[p]).err => pc[p] = "closed" /\ out[p] = VersesOut(mode)

\* C7 witness: one record was skipped and the two after it were yielded.
ExtractFromOffsetWitness ==
  \E p \in Procs :
    /\ pc[p] = "closed" /\ offset[p] = 2 /\ FileOf(sel[p]).n = 3
    /\ yielded[p] = <<2, 3>>

\* C8: no two requests are inside the shared random generator at once.
NoSharedGenerator ==
  \A p, q \in Procs :
    p # q => ~(pc[p] = "drawing" /\ pc[q] = "drawing")

\* C9: a request or invocation that has ended holds no open file handle and
\* no open gzip reader.
HandlesReleased ==
  \A p \in Procs :
    pc[p] \in Ended => fh[p] # "open" /\ gz[p] # "open"

\* C10: the CLI prints exactly one record after skipping, when there is one.
CliPrintsOne ==
  \A p \in Procs :
    mode = "cli" /\ pc[p] \in Streamed =>
      Len(yielded[p]) = (IF offset[p] <= FileOf(sel[p]).n THEN 1 ELSE 0)

\* C10 as amended: the CLI prints every record from the selected one to the
\* end of the stream and stops only there.
CliPrintsToEnd ==
  \A p \in Procs :
    mode = "cli" /\ pc[p] \in Streamed =>
      /\ scanPos[p] = FileOf(sel[p]).n
      /\ Len(yielded[p]) =
           (IF offset[p] <= FileOf(sel[p]).n THEN FileOf(sel[p]).n - offset[p] + 1 ELSE 0)
      /\ yielded[p] # <<>> => yielded[p][Len(yielded[p])] = FileOf(sel[p]).n

\* C10 witness: the CLI printed the selected record and the two after it.
CliPrintsToEndWitness ==
  \E p \in Procs :
    /\ mode = "cli" /\ pc[p] = "closed"
    /\ offset[p] = 1 /\ yielded[p] = <<1, 2, 3>>

====
